---- MODULE Spec2Model ----
(***************************************************************************)
(* Model of img_coral.py: the coral growth simulation (CoralCell, Board).  *)
(*                                                                         *)
(* A board is constructed once (Construct), then the driver calls          *)
(* Board.step (StepBegin .. StepEnd), or Board.run, which loops on step    *)
(* until done.  Board.step is a list comprehension over the drifters: it   *)
(* is modelled by one action per drifter_step call, in list order, the     *)
(* results accumulating in new_drifters until the assignment to            *)
(* self.drifters (StepEnd).                                                *)
(*                                                                         *)
(* Random draws (random, randrange, choice) are nondeterministic choices.  *)
(* Probabilities are exact rationals [num, den]; "random() < p" can come   *)
(* out TRUE iff p > 0 and FALSE iff p < 1, as random() ranges over [0, 1). *)
(***************************************************************************)
EXTENDS Integers, Sequences, FiniteSets, TLC

VARIABLES
    pc,            \* "new" | "idle" | "step" | "raised" | "returned": where the
                   \* driver is (between calls when "idle", past run when "returned")
    in_run,        \* TRUE while Board.run's loop is active
    nb_rows,       \* Board.nb_rows
    nb_cols,       \* Board.nb_cols
    cells,         \* Board.cells, a function from positions <<row, col>>
    step_nb,       \* Board.step_nb
    done,          \* Board.done
    drifters,      \* Board.drifters, a sequence of positions <<row, col>>
    hue_diff,      \* Board.hue_diff
    p_brightness,  \* Board.p_brightness (internal probability)
    p_down,        \* Board.p_down
    p_right,       \* Board.p_right
    idx,           \* step: index of the drifter the comprehension is at
    new_drifters,  \* step: results of the comprehension so far
    start_cells    \* history: Board.cells as it was when the current step began

vars == <<pc, in_run, nb_rows, nb_cols, cells, step_nb, done, drifters, hue_diff,
          p_brightness, p_down, p_right, idx, new_drifters, start_cells>>

params == <<nb_rows, nb_cols, hue_diff, p_brightness, p_down, p_right>>

-----------------------------------------------------------------------------
(* Bounds of the model *)

\* largest nb_rows and nb_cols given to the constructor
MaxRows == 2
MaxCols == 2
\* largest number of drifter_step calls made on one board: a board of nb_cols
\* drifters takes up to MaxDrifterSteps \div nb_cols steps
MaxDrifterSteps == 10
\* largest number of steps made on the one-column boards of SpecDeep
MaxDeepSteps == 104

(* Program constants *)
HueModulus == 360
MaxBrightness == 100
RandomHueLow == -60
RandomHueHigh == 200

-----------------------------------------------------------------------------
(* Probabilities and random draws *)

Prob(n, d) == [num |-> n, den |-> d]

\* p > 0 and p < 1 for a rational p with non-zero denominator
Positive(p) == p.num * p.den > 0
BelowOne(p) == IF p.den > 0 THEN p.num < p.den ELSE p.num > p.den

\* the outcomes "random() < p" can have
RandomLess(p) == {b \in BOOLEAN : IF b THEN Positive(p) ELSE BelowOne(p)}

\* probability of drifting upwards, the literal 0.333
PUp == Prob(333, 1000)

-----------------------------------------------------------------------------
(* CoralCell *)

None == [kind |-> "None"]

CoralCell(hue, brightness) ==
    [kind |-> "CoralCell", hue |-> hue, brightness |-> brightness]

\* mutant: the draw is returned without the reduction modulo 360
RandomHueUnreduced(v) == v

\* get_random_hue: randrange(-60, 200) % 360, for the draw v
RandomHueOf(v) == v % HueModulus

\* the values get_random_hue() can return when randrange draws from draws
get_random_hue(draws) == {RandomHueOf(v) : v \in draws}

\* mutant: the sum is not reduced modulo 360
NewHueUnreduced(cell, d) == cell.hue + d

\* CoralCell.get_child: the new hue for the drawn offset d
NewHue(cell, d) == (cell.hue + d) % HueModulus

\* mutant: the test self.brightness < 100 is missing
NewBrightnessUncapped(cell, r) ==
    IF r THEN cell.brightness + 1 ELSE cell.brightness

\* mutant: the test is self.brightness <= 100
NewBrightnessInclusive(cell, r) ==
    IF cell.brightness <= MaxBrightness /\ r
    THEN cell.brightness + 1
    ELSE cell.brightness

\* CoralCell.get_child: the new brightness when "random() < p_brighter" is r
NewBrightness(cell, r) ==
    IF cell.brightness < MaxBrightness /\ r
    THEN cell.brightness + 1
    ELSE cell.brightness

\* CoralCell.get_child: every child the random draws can produce
get_child(cell, hd, p_brighter) ==
    {CoralCell(NewHue(cell, d), NewBrightness(cell, r)) :
        d \in (-hd)..hd, r \in RandomLess(p_brighter)}

-----------------------------------------------------------------------------
(* Board *)

Pos == (0..(nb_rows - 1)) \X (0..(nb_cols - 1))

\* mutant: the slot itself is skipped when the columns wrap onto it
NeighboursNotSelf(row, col) ==
    {cells[q] : q \in
        {q \in {<<row - 1, col>>} : row > 0 /\ cells[q] # None}
        \cup {q \in {<<row + 1, col>>} : row < nb_rows - 1 /\ cells[q] # None}
        \cup {q \in {<<row, (col - 1) % nb_cols>>} \ {<<row, col>>} : cells[q] # None}
        \cup {q \in {<<row, (col + 1) % nb_cols>>} \ {<<row, col>>} : cells[q] # None}}

\* mutant: the row below is looked up only when row < nb_rows - 2
NeighboursNotBelow(row, col) ==
    {cells[q] : q \in
        {q \in {<<row - 1, col>>} : row > 0 /\ cells[q] # None}
        \cup {q \in {<<row + 1, col>>} : row < nb_rows - 2 /\ cells[q] # None}
        \cup {q \in {<<row, (col - 1) % nb_cols>>} : cells[q] # None}
        \cup {q \in {<<row, (col + 1) % nb_cols>>} : cells[q] # None}}

\* mutant: the test row > 0 is missing, and self.cells[-1] is the last row
NeighboursRowWrap(row, col) ==
    {cells[q] : q \in
        {q \in {<<(row - 1) % nb_rows, col>>} : cells[q] # None}
        \cup {q \in {<<row + 1, col>>} : row < nb_rows - 1 /\ cells[q] # None}
        \cup {q \in {<<row, (col - 1) % nb_cols>>} : cells[q] # None}
        \cup {q \in {<<row, (col + 1) % nb_cols>>} : cells[q] # None}}

\* mutant: the lookup reads the grid as it was when the step began
NeighboursAtStart(row, col) ==
    {start_cells[q] : q \in
        {q \in {<<row - 1, col>>} : row > 0 /\ start_cells[q] # None}
        \cup {q \in {<<row + 1, col>>} : row < nb_rows - 1 /\ start_cells[q] # None}
        \cup {q \in {<<row, (col - 1) % nb_cols>>} : start_cells[q] # None}
        \cup {q \in {<<row, (col + 1) % nb_cols>>} : start_cells[q] # None}}

\* Board.get_coral_neighbour: the cells the list neighbours holds
Neighbours(row, col) ==
    {cells[q] : q \in
        {q \in {<<row - 1, col>>} : row > 0 /\ cells[q] # None}
        \cup {q \in {<<row + 1, col>>} : row < nb_rows - 1 /\ cells[q] # None}
        \cup {q \in {<<row, (col - 1) % nb_cols>>} : cells[q] # None}
        \cup {q \in {<<row, (col + 1) % nb_cols>>} : cells[q] # None}}

\* Board.get_coral_neighbour: choice(neighbours), or None
get_coral_neighbour(row, col) ==
    IF Neighbours(row, col) # {} THEN Neighbours(row, col) ELSE {None}

\* Board.make_drifter: (0, randrange(nb_cols))
make_drifter == {<<0, c>> : c \in 0..(nb_cols - 1)}

\* mutant: the downward branch is never taken
drift_never_down(row, col) ==
    {<<row - 1, col>> : r \in {r \in RandomLess(PUp) : row > 0 /\ r}}
    \cup
    {IF r THEN <<row, (col + 1) % nb_cols>> ELSE <<row, (col - 1) % nb_cols>> :
        r \in {r \in RandomLess(p_right) : row > 0 => FALSE \in RandomLess(PUp)}}

\* mutant: the downward branch tests row < self.nb_rows
drift_below_grid(row, col) ==
    {<<row + 1, col>> : r \in {r \in RandomLess(p_down) : row < nb_rows /\ r}}
    \cup
    {<<row - 1, col>> : r \in
        {r \in RandomLess(PUp) :
            /\ (row < nb_rows => FALSE \in RandomLess(p_down))
            /\ row > 0 /\ r}}
    \cup
    {IF r THEN <<row, (col + 1) % nb_cols>> ELSE <<row, (col - 1) % nb_cols>> :
        r \in {r \in RandomLess(p_right) :
            /\ (row < nb_rows => FALSE \in RandomLess(p_down))
            /\ (row > 0 => FALSE \in RandomLess(PUp))}}

\* Board.drift: the positions the cascade of draws can return
drift(row, col) ==
    {<<row + 1, col>> : r \in {r \in RandomLess(p_down) : row < nb_rows - 1 /\ r}}
    \cup
    {<<row - 1, col>> : r \in
        {r \in RandomLess(PUp) :
            /\ (row < nb_rows - 1 => FALSE \in RandomLess(p_down))
            /\ row > 0 /\ r}}
    \cup
    {IF r THEN <<row, (col + 1) % nb_cols>> ELSE <<row, (col - 1) % nb_cols>> :
        r \in {r \in RandomLess(p_right) :
            /\ (row < nb_rows - 1 => FALSE \in RandomLess(p_down))
            /\ (row > 0 => FALSE \in RandomLess(PUp))}}

-----------------------------------------------------------------------------
(* Construction *)

Init ==
    /\ pc = "new"
    /\ in_run = FALSE
    /\ nb_rows = 0
    /\ nb_cols = 0
    /\ cells = <<>>
    /\ step_nb = 0
    /\ done = FALSE
    /\ drifters = <<>>
    /\ hue_diff = 0
    /\ p_brightness = Prob(0, 1)
    /\ p_down = Prob(0, 1)
    /\ p_right = Prob(0, 1)
    /\ idx = 0
    /\ new_drifters = <<>>
    /\ start_cells = <<>>

\* Board.__init__ raises: p_brightness * 100 / self.nb_rows divides by zero.
\* Nothing else in __init__ depends on the sign of an integer dimension:
\* range(n) and [None] * n are empty for n <= 0.
ConstructRaises(rows, cols) == rows = 0

\* mutant: one drifter per row instead of one per column
nb_drifters_rows(rows, cols) == rows

\* nb_drifters = nb_cols
nb_drifters(rows, cols) == cols

\* Board.__init__(rows, cols, hd, pb / 100, db / 100, rb / 100):
\* pb, db and rb are the arguments p_brightness, down_bias and right_bias
\* in hundredths.
Construct(rows, cols, hd, pb, db, rb) ==
    /\ pc = "new"
    /\ IF ConstructRaises(rows, cols)
       THEN /\ pc' = "raised"
            /\ UNCHANGED <<in_run, nb_rows, nb_cols, cells, step_nb, done, drifters,
                           hue_diff, p_brightness, p_down, p_right, idx,
                           new_drifters, start_cells>>
       ELSE /\ pc' = "idle"
            /\ nb_rows' = rows
            /\ nb_cols' = cols
            /\ cells' = [q \in (0..(rows - 1)) \X (0..(cols - 1)) |-> None]
            /\ step_nb' = 0
            /\ done' = FALSE
            /\ drifters' \in [1..nb_drifters(rows, cols) ->
                                {<<0, c>> : c \in 0..(cols - 1)}]
            /\ hue_diff' = hd
            /\ p_brightness' = Prob(pb, rows)
            /\ p_down' = Prob(2500 + 75 * db, 10000)
            /\ p_right' = Prob(100 + rb, 200)
            /\ start_cells' = cells'
            /\ UNCHANGED <<in_run, idx, new_drifters>>

-----------------------------------------------------------------------------
(* Board.step *)

\* the drifter_step calls a step makes (one is counted for an empty list)
StepCost == IF Len(drifters) > 0 THEN Len(drifters) ELSE 1

\* Board.step begins: self.step_nb becomes n, and the comprehension starts
BeginStep(n) ==
    /\ pc' = "step"
    /\ step_nb' = n
    /\ idx' = 1
    /\ new_drifters' = <<>>
    /\ start_cells' = cells
    /\ UNCHANGED <<in_run, cells, done, drifters, params>>

\* the driver calls Board.step: self.step_nb += 1
StepBegin(budget) ==
    /\ pc = "idle"
    /\ ~in_run
    /\ (step_nb + 1) * StepCost <= budget
    /\ BeginStep(step_nb + 1)

\* the drifter the comprehension is at
AtDrifter == pc = "step" /\ idx <= Len(drifters)
Row == drifters[idx][1]
Col == drifters[idx][2]

\* the comprehension keeps the value drifter_step returned
Return(d) ==
    /\ new_drifters' = Append(new_drifters, d)
    /\ idx' = idx + 1
    /\ UNCHANGED <<pc, in_run, step_nb, drifters, params, start_cells>>

\* drifter_step indexes self.cells outside the grid: IndexError
DrifterRaise ==
    /\ AtDrifter
    /\ <<Row, Col>> \notin Pos
    /\ pc' = "raised"
    /\ UNCHANGED <<in_run, cells, step_nb, done, drifters, params, idx,
                   new_drifters, start_cells>>

\* drifter_step, settle branch: if row == 0: self.done = True
SettleDone(row) == IF row = 0 THEN TRUE ELSE done

\* mutant: the seed branch tests row == 0 as the settle branch does
SeedDoneOnTopRow(row) == IF row = 0 THEN TRUE ELSE done

\* drifter_step, seed branch: self.done is not assigned
SeedDone(row) == done

\* mutant: the last row is taken to be nb_rows - 2
SeedRowOffByOne == nb_rows - 2

\* drifter_step: the row on which a drifter without neighbour seeds
SeedRow == nb_rows - 1

\* mutant: the write lands one column to the right
WriteSlotRight(row, col) == <<row, (col + 1) % nb_cols>>

\* drifter_step: the slot a settling or seeding drifter at (row, col) writes
WriteSlot(row, col) == <<row, col>>

\* mutant: the rows of the grid are one shared list, so the write shows in
\* every row
WriteAliasedRows(slot, cell) ==
    [q \in DOMAIN cells |-> IF q[2] = slot[2] THEN cell ELSE cells[q]]

\* mutant: the write rebuilds its row, keeping only the written slot
WriteRebuildsRow(slot, cell) ==
    [q \in DOMAIN cells |->
        IF q = slot THEN cell ELSE IF q[1] = slot[1] THEN None ELSE cells[q]]

\* drifter_step: self.cells[row][col] = cell
Write(slot, cell) == [cells EXCEPT ![slot] = cell]

\* drifter_step, neighbour is not None
Settle ==
    /\ AtDrifter
    /\ <<Row, Col>> \in Pos
    /\ \E neighbour \in get_coral_neighbour(Row, Col) :
        /\ neighbour # None
        /\ \E child \in get_child(neighbour, hue_diff, p_brightness) :
            cells' = Write(WriteSlot(Row, Col), child)
    /\ done' = SettleDone(Row)
    /\ \E d \in make_drifter : Return(d)

\* drifter_step, no neighbour and row == self.nb_rows - 1
Seed(draws) ==
    /\ AtDrifter
    /\ <<Row, Col>> \in Pos
    /\ None \in get_coral_neighbour(Row, Col)
    /\ Row = SeedRow
    /\ \E hue \in get_random_hue(draws) :
        cells' = Write(WriteSlot(Row, Col), CoralCell(hue, 0))
    /\ done' = SeedDone(Row)
    /\ \E d \in make_drifter : Return(d)

\* drifter_step, no neighbour and not on the seeding row
Drift ==
    /\ AtDrifter
    /\ <<Row, Col>> \in Pos
    /\ None \in get_coral_neighbour(Row, Col)
    /\ Row # SeedRow
    /\ UNCHANGED <<cells, done>>
    /\ \E d \in drift(Row, Col) : Return(d)

\* self.drifters = [ ... ]
StepEnd ==
    /\ pc = "step"
    /\ idx > Len(drifters)
    /\ pc' = "idle"
    /\ drifters' = new_drifters
    /\ UNCHANGED <<in_run, cells, step_nb, done, params, idx, new_drifters,
                   start_cells>>

-----------------------------------------------------------------------------
(* Board.run, called with print_step = image_step = 0 *)

\* the driver calls Board.run on the board it constructed: self.step_nb = 0
RunBegin ==
    /\ pc = "idle"
    /\ ~in_run
    /\ step_nb = 0
    /\ in_run' = TRUE
    /\ step_nb' = 0
    /\ UNCHANGED <<pc, cells, done, drifters, params, idx, new_drifters,
                   start_cells>>

\* Board.run never reads step_nb when print_step = image_step = 0, and its
\* loop has no step limit: for the state space to be finite the count stops
\* at MaxDrifterSteps, which stands for every larger count.
RunCount(n) == IF n < MaxDrifterSteps THEN n + 1 ELSE n

\* while not self.done: self.step()
RunStep ==
    /\ pc = "idle"
    /\ in_run
    /\ ~done
    /\ BeginStep(RunCount(step_nb))

\* the loop test fails: return self
RunReturn ==
    /\ pc = "idle"
    /\ in_run
    /\ done
    /\ pc' = "returned"
    /\ in_run' = FALSE
    /\ UNCHANGED <<cells, step_nb, done, drifters, params, idx, new_drifters,
                   start_cells>>

-----------------------------------------------------------------------------
(* Specifications *)

\* the draws of randrange(-60, 200) the model takes: the ends of the range
\* and the two values around the wrap at 0
RootDraws == {RandomHueLow, -1, 0, RandomHueHigh - 1}

\* a driver that constructs a board from the given arguments and calls
\* Board.step on it
DriverNext(rowsIn, colsIn, hds, pbs, dbs, rbs, draws, budget) ==
    \/ \E rows \in rowsIn, cols \in colsIn, hd \in hds, pb \in pbs,
          db \in dbs, rb \in rbs :
            Construct(rows, cols, hd, pb, db, rb)
    \/ StepBegin(budget)
    \/ DrifterRaise
    \/ Settle
    \/ Seed(draws)
    \/ Drift
    \/ StepEnd

\* Spec: every board of up to MaxRows x MaxCols, the dimensions 0 and -1
\* included, one hue, p_brightness = 0.01 (internal probability 1 on one row,
\* 0.5 on two), down_bias 0.3 and 1, right_bias 0.
Next ==
    DriverNext((-1)..MaxRows, (-1)..MaxCols, {0}, {1}, {30, 100}, {0},
               {0}, MaxDrifterSteps)

Spec == Init /\ [][Next]_vars

\* SpecDeep: the one-column boards (nb_rows 0 and -1 included), stepped long enough for brightness to
\* reach 100: one hue, p_brightness 0.01 and 0.8 (internal probability 1,
\* 0.5, 80 and 40), down_bias 1.
DeepNext ==
    DriverNext((-1)..MaxRows, {1}, {0}, {1, 80}, {100}, {0}, {0}, MaxDeepSteps)

SpecDeep == Init /\ [][DeepNext]_vars

\* the grids: the boards of Spec with down_bias = 0.3 only, for the
\* properties of the grid that do not depend on the way the drifters move
GridNext ==
    DriverNext((-1)..MaxRows, (-1)..MaxCols, {0}, {1}, {30}, {0}, {0},
               MaxDrifterSteps)

SpecGrid == Init /\ [][GridNext]_vars

\* SpecHue: the one-column boards (nb_rows 0 and -1 included) with hue_diff 0 and 2 and the roots drawn
\* from RootDraws, so that hues wrap downwards and upwards.
HueNext ==
    DriverNext((-1)..MaxRows, {1}, {0, 2}, {1}, {30}, {0}, RootDraws,
               MaxDrifterSteps)

SpecHue == Init /\ [][HueNext]_vars

\* every draw of randrange(-60, 200)
AllRootDraws == RandomHueLow..(RandomHueHigh - 1)

\* the roots: one-column boards that always drift down, the root hue drawn
\* from the whole range of randrange
RootNext ==
    DriverNext((-1)..MaxRows, {1}, {0}, {1}, {100}, {0}, AllRootDraws,
               MaxDrifterSteps)

SpecRoot == Init /\ [][RootNext]_vars

\* a driver that constructs a valid board and calls Board.run on it
RunNext ==
    \/ \E rows \in 1..MaxRows, cols \in 1..MaxCols, db \in {0, 100},
          rb \in {-100, 0, 100} :
            Construct(rows, cols, 0, 80, db, rb)
    \/ RunBegin
    \/ RunStep
    \/ Settle
    \/ Seed({0})
    \/ Drift
    \/ StepEnd
    \/ RunReturn

\* the drifter at (row, col) drifts down
DriftDownFrom(row, col) ==
    /\ Drift
    /\ drifters[idx] = <<row, col>>
    /\ new_drifters' = Append(new_drifters, <<row + 1, col>>)

\* a settling or seeding drifter is replaced by one at column c
SpawnAt(c) ==
    (Settle \/ Seed({0})) /\ new_drifters' = Append(new_drifters, <<0, c>>)

\* The program keeps running, and the outcomes of the random draws that have
\* a positive probability keep being drawn: the downward move from each
\* position (p_down >= 0.25 for a down_bias in [0, 1]), and each spawn column.
RunFairness ==
    /\ WF_vars(RunNext)
    /\ \A r \in 0..(MaxRows - 2), c \in 0..(MaxCols - 1) :
        SF_vars(DriftDownFrom(r, c))
    /\ \A c \in 0..(MaxCols - 1) : SF_vars(SpawnAt(c))

SpecRun == Init /\ [][RunNext]_vars /\ RunFairness

-----------------------------------------------------------------------------
(* Board.print_to_image *)

\* Image.new('RGB', ..., '#000088'): the colour every pixel starts with
Background == <<0, 0, 136>>

\* the colour of a drifter pixel: (255, 255, 255)
White == <<255, 255, 255>>

\* int(x * 255 + 0.5) for the channel value x = n / d (n >= 0, d > 0)
Channel(n, d) == (2 * 255 * n + d) \div (2 * d)

\* ImageColor.getrgb('hsv(%d, 100%%, %d%%)' % (hue, brightness)): Pillow
\* converts with colorsys.hsv_to_rgb(hue / 360, 1, brightness / 100) and
\* rounds each channel to 0..255. At full saturation the three channel
\* values are v = brightness / 100, t = v * f, q = v * (1 - f) and 0, where
\* f = (hue mod 60) / 60, arranged by the sextant hue div 60.
getrgb_hsv(hue, brightness) ==
    LET i == (hue \div 60) % 6
        f == hue % 60
        v == Channel(brightness, 100)
        t == Channel(brightness * f, 6000)
        q == Channel(brightness * (60 - f), 6000)
    IN  CASE i = 0 -> <<v, t, 0>>
          [] i = 1 -> <<q, v, 0>>
          [] i = 2 -> <<0, v, t>>
          [] i = 3 -> <<0, q, v>>
          [] i = 4 -> <<t, 0, v>>
          [] i = 5 -> <<v, 0, q>>

\* the pixel coordinates of the image: px[col, row]
Pixels == (0..(nb_cols - 1)) \X (0..(nb_rows - 1))

\* mutant: the drifters are drawn whatever show_drifters says
print_to_image_with_drifters(show_drifters) ==
    [p \in Pixels |->
        IF \E i \in 1..Len(drifters) : drifters[i] = <<p[2], p[1]>>
        THEN White
        ELSE IF cells[<<p[2], p[1]>>] # None
             THEN getrgb_hsv(cells[<<p[2], p[1]>>].hue,
                             cells[<<p[2], p[1]>>].brightness)
             ELSE Background]

\* Board.print_to_image(show_drifters): the pixels of the returned image.
\* The cells are painted first and the drifters over them.
print_to_image(show_drifters) ==
    [p \in Pixels |->
        IF show_drifters /\ \E i \in 1..Len(drifters) : drifters[i] = <<p[2], p[1]>>
        THEN White
        ELSE IF cells[<<p[2], p[1]>>] # None
             THEN getrgb_hsv(cells[<<p[2], p[1]>>].hue,
                             cells[<<p[2], p[1]>>].brightness)
             ELSE Background]

-----------------------------------------------------------------------------
(* Properties *)

\* a board the constructor's contract allows (nb_rows, nb_cols > 0)
ValidBoard == pc \in {"idle", "step"} /\ nb_rows >= 1 /\ nb_cols >= 1

\* a transition that is one drifter_step call returning
DrifterStepped == pc = "step" /\ pc' = "step" /\ idx' = idx + 1

IsCell(c) == c # None

\* C1: done is false on a freshly constructed board; a drifter_step call
\* turns it true exactly when the drifter stands on row 0 and has a coral
\* neighbour (the settle branch); a seed, a drift and every other transition
\* leave it alone; once true it stays true.
C1_DoneOnlyBySettleOnTopRow ==
    [][ /\ (pc = "new" /\ pc' = "idle" => ~done')
        /\ (done => done')
        /\ (DrifterStepped =>
                (done' <=> (done \/ (Row = 0 /\ Neighbours(Row, Col) # {}))))
        /\ (pc # "new" /\ ~DrifterStepped => done' = done) ]_vars

\* a two-row board on which done was set, between two steps
C1_Witness ==
    /\ ValidBoard /\ pc = "idle" /\ nb_rows = 2 /\ done
    /\ \E c \in 0..(nb_cols - 1) : IsCell(cells[<<0, c>>])

\* C2: a board with nb_rows, nb_cols >= 1 holds exactly nb_cols drifters at
\* construction and after every step, and the comprehension of a step
\* ends with nb_cols results.
C2_DrifterCount ==
    ValidBoard =>
        /\ Len(drifters) = nb_cols
        /\ (pc = "step" /\ idx > Len(drifters) => Len(new_drifters) = nb_cols)

\* a 2 x 2 board after three steps or more, with a cell on the top row
\* (settle) and one on the last row (seed), which a drifter had to drift to
C2_Witness ==
    /\ ValidBoard /\ pc = "idle" /\ nb_rows = 2 /\ nb_cols = 2 /\ step_nb >= 3
    /\ done /\ IsCell(cells[<<1, 0>>])

\* C4: a drifter_step call that changes a slot to a cell not derived from a
\* coral neighbour of the drifter (a root) happens only on the last row, with
\* no coral neighbour, and writes brightness 0; a call that changes a slot on
\* another row, or with a coral neighbour present, writes a child of one of
\* the neighbours.
C4_RootsOnlyBySeed ==
    [][DrifterStepped /\ <<Row, Col>> \in Pos /\ cells' # cells =>
        LET slot == <<Row, Col>>
            ns == Neighbours(Row, Col)
            derived == \E n \in ns : cells'[slot] \in get_child(n, hue_diff, p_brightness)
        IN  /\ cells'[slot] # cells[slot]
            /\ (~derived => Row = nb_rows - 1 /\ ns = {} /\ cells'[slot].brightness = 0)
            /\ (Row # nb_rows - 1 \/ ns # {} => derived) ]_vars

\* a root on the last row and a child above it
C4_Witness ==
    /\ ValidBoard /\ nb_rows = 2
    /\ \E c \in 0..(nb_cols - 1) : IsCell(cells[<<1, c>>]) /\ IsCell(cells[<<0, c>>])

\* C5 as stated: on the 1 x 1 board the first step seeds and sets done.
C5_Original ==
    ValidBoard /\ pc = "idle" /\ nb_rows = 1 /\ nb_cols = 1 /\ step_nb = 1 =>
        IsCell(cells[<<0, 0>>]) /\ done

\* C5 amended: on the 1 x 1 board the first step seeds a root at (0, 0) and
\* leaves done false; the second step settles at (0, 0), the cell being its
\* own neighbour through the column wrap, and sets done: done is true after
\* exactly two steps.
C5_DoneAfterTwoSteps ==
    ValidBoard /\ pc = "idle" /\ nb_rows = 1 /\ nb_cols = 1 =>
        /\ (step_nb = 0 => cells[<<0, 0>>] = None /\ ~done)
        /\ (step_nb = 1 => IsCell(cells[<<0, 0>>]) /\ cells[<<0, 0>>].brightness = 0
                           /\ ~done)
        /\ (step_nb >= 2 => IsCell(cells[<<0, 0>>]) /\ done)

C5_Witness ==
    ValidBoard /\ pc = "idle" /\ nb_rows = 1 /\ nb_cols = 1 /\ step_nb = 2 /\ done

\* every draw of drift goes down: random() < p_down cannot fail
AlwaysDown == ~BelowOne(p_down)

\* C6 as stated: on the 2 x 1 board with the draws forcing the downward
\* branch, a root is at row 1 after the first step, and row 0 is settled and
\* done is true after the second.
C6_Original ==
    ValidBoard /\ pc = "idle" /\ nb_rows = 2 /\ nb_cols = 1 /\ AlwaysDown =>
        /\ (step_nb = 1 => IsCell(cells[<<1, 0>>]))
        /\ (step_nb = 2 => IsCell(cells[<<0, 0>>]) /\ done)

\* C6 amended: on the 2 x 1 board with the draws forcing the downward branch,
\* the first step only moves the drifter to row 1; the second seeds a root at
\* row 1 and spawns the replacement at row 0; the third settles the
\* replacement at row 0 as a child of the row-1 cell and sets done.
C6_DoneAfterThreeSteps ==
    ValidBoard /\ pc = "idle" /\ nb_rows = 2 /\ nb_cols = 1 /\ AlwaysDown =>
        /\ (step_nb = 1 =>
                /\ cells[<<0, 0>>] = None /\ cells[<<1, 0>>] = None
                /\ drifters = << <<1, 0>> >> /\ ~done)
        /\ (step_nb = 2 =>
                /\ cells[<<0, 0>>] = None /\ IsCell(cells[<<1, 0>>])
                /\ cells[<<1, 0>>].brightness = 0
                /\ drifters = << <<0, 0>> >> /\ ~done)
        /\ (step_nb = 3 =>
                /\ IsCell(cells[<<1, 0>>])
                /\ cells[<<0, 0>>] \in get_child(cells[<<1, 0>>], hue_diff, p_brightness)
                /\ done)

C6_Witness ==
    /\ ValidBoard /\ pc = "idle" /\ nb_rows = 2 /\ nb_cols = 1 /\ AlwaysDown
    /\ step_nb = 3 /\ done

\* C7: every cell of the grid has an integer brightness between 0 and 100,
\* whatever the internal probability (1 and above included).
C7_BrightnessRange ==
    ValidBoard =>
        \A q \in Pos : IsCell(cells[q]) => cells[q].brightness \in 0..MaxBrightness

\* a step has replaced a cell of brightness 100 by its own child, drawn with
\* an internal probability of 1 or more
C7_Witness ==
    /\ ValidBoard /\ pc = "idle" /\ ~BelowOne(p_brightness)
    /\ IsCell(start_cells[<<0, 0>>]) /\ start_cells[<<0, 0>>].brightness = MaxBrightness
    /\ cells[<<0, 0>>].brightness = MaxBrightness

\* C8: every cell of the grid has an integer hue h with 0 <= h < 360, roots
\* and children alike.
C8_HueRange ==
    ValidBoard =>
        \A q \in Pos : IsCell(cells[q]) => cells[q].hue \in 0..(HueModulus - 1)

\* a root drawn below 0 (hue 359) under a child whose hue wrapped past 359
C8_Witness ==
    /\ ValidBoard /\ nb_rows = 2 /\ hue_diff = 2
    /\ IsCell(cells[<<1, 0>>]) /\ cells[<<1, 0>>].hue = HueModulus - 1
    /\ IsCell(cells[<<0, 0>>]) /\ cells[<<0, 0>>].hue = 1

\* C9 as stated: over a step, the brightness stored at a position that held
\* a cell when the step began does not decrease.
C9_Original ==
    ValidBoard /\ pc = "idle" =>
        \A q \in Pos : IsCell(start_cells[q]) =>
            cells[q].brightness >= start_cells[q].brightness

\* C9 amended: over a step, the brightness stored at a position that held a
\* cell when the step began does not decrease, unless a drifter stood on that
\* position when the step began (such a drifter overwrites the slot with a
\* child of one of its neighbours, which may be darker than the cell it
\* replaces).
C9_NoDecreaseAwayFromDrifters ==
    ValidBoard /\ pc = "step" =>
        \A q \in Pos :
            IsCell(start_cells[q]) /\ (\A i \in 1..Len(drifters) : drifters[i] # q) =>
                cells[q].brightness >= start_cells[q].brightness

\* the end of a step that wrote to the grid while a brighter cell stood
\* away from every drifter
C9_Witness ==
    /\ ValidBoard /\ pc = "step" /\ idx > Len(drifters) /\ cells # start_cells
    /\ \E q \in Pos :
        /\ IsCell(start_cells[q]) /\ start_cells[q].brightness >= 1
        /\ \A i \in 1..Len(drifters) : drifters[i] # q

\* C3: from every freshly constructed board with nb_rows, nb_cols >= 1, under
\* the fairness of the random draws, Board.run eventually returns, and it
\* returns only with done true.
C3_RunReachesDone ==
    /\ <>(pc = "returned")
    /\ [](pc = "returned" => done)
    /\ [][in_run /\ ~in_run' => done]_vars

\* run returned from a board that needed drifting, seeding and settling
C3_Witness ==
    pc = "returned" /\ done /\ nb_rows = 2 /\ nb_cols = 2

\* C10 as stated: no board is produced unless nb_rows and nb_cols are both
\* positive.
C10_Original ==
    pc \in {"idle", "step"} => nb_rows >= 1 /\ nb_cols >= 1


\* C11: between two steps of a board with nb_rows, nb_cols >= 1, the image
\* print_to_image(False) returns has one pixel for every (col, row) of the
\* grid; when no slot holds a cell every pixel is the background colour; and
\* whatever the grid holds, a pixel that is not the background colour is the
\* pixel of a slot that holds a cell.
C11_RenderBackground ==
    ValidBoard /\ pc = "idle" =>
        LET im == print_to_image(FALSE)
        IN  /\ DOMAIN im = (0..(nb_cols - 1)) \X (0..(nb_rows - 1))
            /\ ((\A q \in Pos : cells[q] = None) =>
                    \A p \in DOMAIN im : im[p] = <<0, 0, 136>>)
            /\ \A row \in 0..(nb_rows - 1), col \in 0..(nb_cols - 1) :
                    im[<<col, row>>] # <<0, 0, 136>> => IsCell(cells[<<row, col>>])

\* a board between two steps, with a drifter on an empty slot and a cell on
\* another slot
C11_Witness ==
    /\ ValidBoard /\ pc = "idle" /\ nb_rows = 2 /\ nb_cols = 2
    /\ \E q \in Pos : IsCell(cells[q])
    /\ \E i \in 1..Len(drifters) : cells[drifters[i]] = None

\* the positions orthogonally adjacent to (row, col): the rows end at the
\* top and the bottom of the grid, the columns wrap
Adjacent(row, col) ==
    (IF row > 0 THEN {<<row - 1, col>>} ELSE {})
    \cup (IF row < nb_rows - 1 THEN {<<row + 1, col>>} ELSE {})
    \cup {<<row, (col - 1) % nb_cols>>, <<row, (col + 1) % nb_cols>>}

\* the cells a grid holds next to (row, col)
GridNeighbours(grid, row, col) ==
    {grid[q] : q \in {q \in Adjacent(row, col) : IsCell(grid[q])}}

\* a drifter_step call at (Row, Col) that decided on the neighbours ns:
\* it settled a child of one of them, or seeded a root on the last row, or
\* left the grid and done alone
DecidedOn(ns) ==
    IF ns # {}
    THEN /\ \E n \in ns : cells'[<<Row, Col>>] \in get_child(n, hue_diff, p_brightness)
         /\ done' = (done \/ Row = 0)
    ELSE IF Row = nb_rows - 1
    THEN /\ IsCell(cells'[<<Row, Col>>]) /\ cells'[<<Row, Col>>].brightness = 0
         /\ done' = done
    ELSE cells' = cells /\ done' = done

\* C12 as stated: every drifter_step call of a step decides on the grid as
\* it was when the step began.
C12_Original ==
    [][DrifterStepped => DecidedOn(GridNeighbours(start_cells, Row, Col))]_vars

\* C12 amended: every drifter_step call of a step decides on the grid as it
\* is when the call is made, which holds the cells the drifters processed
\* before it in the same step have written.
C12_DecidesOnCurrentGrid ==
    [][DrifterStepped => DecidedOn(GridNeighbours(cells, Row, Col))]_vars

\* the first step of a one-row, two-column board set done: the second
\* drifter settled next to the root the first one had just seeded
C12_Witness ==
    /\ ValidBoard /\ nb_rows = 1 /\ nb_cols = 2 /\ step_nb = 1 /\ done
    /\ \A q \in Pos : start_cells[q] = None

\* C13: a drifter_step call for a drifter at (row, col) leaves every slot
\* other than (row, col) as it was; and when the drifter has no coral
\* neighbour and is not on the last row (the drift branch), the whole grid
\* and done are as they were.
C13_OnlyOwnSlot ==
    [][DrifterStepped =>
        /\ DOMAIN cells' = DOMAIN cells
        /\ \A q \in Pos \ {<<Row, Col>>} : cells'[q] = cells[q]
        /\ (GridNeighbours(cells, Row, Col) = {} /\ Row # nb_rows - 1 =>
                cells' = cells /\ done' = done) ]_vars

\* a step of a two-row, two-column board in which the first drifter drifted
\* down and the second wrote into the grid
C13_Witness ==
    /\ ValidBoard /\ nb_rows = 2 /\ nb_cols = 2 /\ pc = "step" /\ idx = 3
    /\ new_drifters[1][1] = 1
    /\ cells # start_cells

\* C14: on every board between two steps (drift reads the dimensions and
\* p_down only), for every position (row, col), each position drift can
\* return is (row+1, col), (row-1, col), (row, (col+1) mod nb_cols) or
\* (row, (col-1) mod nb_cols), and drift returns one; (row+1, col) is not
\* returned from the last row nor (row-1, col) from row 0, so the result is
\* in the grid; and a position other than (row+1, col) is returned only
\* when the row is the last one or the downward draw can fail (p_down < 1).
C14_DriftStaysInGrid ==
    ValidBoard /\ pc = "idle" =>
        \A row \in 0..(nb_rows - 1), col \in 0..(nb_cols - 1) :
            \E moves \in {drift(row, col)} :
                /\ moves # {}
                /\ moves \subseteq
                        {<<row + 1, col>>, <<row - 1, col>>,
                         <<row, (col + 1) % nb_cols>>, <<row, (col - 1) % nb_cols>>}
                /\ (row = nb_rows - 1 => <<row + 1, col>> \notin moves)
                /\ (row = 0 => <<row - 1, col>> \notin moves)
                /\ moves \subseteq Pos
                /\ (moves # {<<row + 1, col>>} =>
                        row = nb_rows - 1 \/ p_down.num < p_down.den)

\* a two-row board whose downward draw can fail, with a drifter that has
\* drifted down to the last row
C14_Witness ==
    /\ ValidBoard /\ nb_rows = 2 /\ nb_cols = 2 /\ pc = "idle"
    /\ p_down.num < p_down.den
    /\ \E i \in 1..Len(drifters) : drifters[i][1] = 1


\* C15: whenever drifter_step is about to look up the neighbours of its
\* drifter at (row, col), get_coral_neighbour returns None exactly when
\* (row-1, col) (if row > 0), (row+1, col) (if row < nb_rows - 1),
\* (row, (col-1) mod nb_cols) and (row, (col+1) mod nb_cols) are all empty,
\* and otherwise every value it can return is the cell held at one of these
\* positions, each of these cells being a possible value. The rows do not
\* wrap: row -1 and row nb_rows are no positions.
C15_NeighbourLookup ==
    ValidBoard /\ AtDrifter /\ <<Row, Col>> \in Pos =>
        \E found \in {{q \in Adjacent(Row, Col) : IsCell(cells[q])}},
           neighbour \in {get_coral_neighbour(Row, Col)} :
            /\ (neighbour = {None} <=> found = {})
            /\ (found # {} => neighbour = {cells[q] : q \in found})

\* a one-row, two-column board holding one cell, the drifter standing on
\* the empty slot: the lookup finds the cell through the wrapping columns,
\* and the lookup at the cell would find nothing
C15_Witness ==
    /\ ValidBoard /\ nb_rows = 1 /\ nb_cols = 2 /\ AtDrifter
    /\ <<Row, Col>> = <<0, 1>>
    /\ IsCell(cells[<<0, 0>>]) /\ cells[<<0, 1>>] = None
    /\ get_coral_neighbour(0, 1) = {cells[<<0, 0>>]}
    /\ get_coral_neighbour(0, 0) = {None}

\* C16: for every cell the grid holds, every child get_child can derive
\* from it has the cell's brightness or that brightness plus one, and the
\* cell's brightness when that is 100; and a drifter_step call that settles
\* a child leaves every cell away from the written slot, its parent among
\* them, with the hue and brightness it had.
C16_ChildBrightness ==
    [][DrifterStepped =>
        /\ \A q \in Pos : IsCell(cells[q]) =>
            \A child \in get_child(cells[q], hue_diff, p_brightness) :
                /\ child.brightness \in
                        {cells[q].brightness, cells[q].brightness + 1}
                /\ (cells[q].brightness = 100 =>
                        child.brightness = cells[q].brightness)
        /\ (GridNeighbours(cells, Row, Col) # {} =>
                /\ \E n \in GridNeighbours(cells, Row, Col) :
                        /\ cells'[<<Row, Col>>].brightness \in
                                {n.brightness, n.brightness + 1}
                        /\ (n.brightness = 100 =>
                                cells'[<<Row, Col>>].brightness = 100)
                /\ \A q \in Pos \ {<<Row, Col>>} : cells'[q] = cells[q]) ]_vars

\* a one-row board on which a child was derived from a cell of brightness
\* 100 and has brightness 100
C16_Witness ==
    /\ ValidBoard /\ nb_rows = 1 /\ pc = "step" /\ idx = 2
    /\ IsCell(start_cells[<<0, 0>>]) /\ start_cells[<<0, 0>>].brightness = 100
    /\ cells[<<0, 0>>].brightness = 100

\* a transition after which the board stands between two steps: the
\* constructor returned, or a step ended
BoardReady == pc # "idle" /\ pc' = "idle"

\* a drifter_step call that settled or seeded returned a drifter on row 0
ReplacedOnTopRow ==
    DrifterStepped /\ (GridNeighbours(cells, Row, Col) # {} \/ Row = nb_rows - 1) =>
        new_drifters'[idx][1] = 0 /\ new_drifters'[idx] \in Pos

\* C17 as stated: after construction and after every step, every drifter is
\* at a position of the grid, and a drifter whose step settled or seeded has
\* been replaced by a drifter on row 0.
C17_Original ==
    [][ /\ (BoardReady => \A i \in 1..Len(drifters') : drifters'[i] \in Pos')
        /\ ReplacedOnTopRow ]_vars

\* C17 on the boards with nb_rows, nb_cols >= 1
C17_OnValidBoards ==
    [][ /\ (BoardReady /\ nb_rows' >= 1 /\ nb_cols' >= 1 =>
                \A i \in 1..Len(drifters') : drifters'[i] \in Pos')
        /\ ReplacedOnTopRow ]_vars

\* C18: a drifter_step call that seeds (no coral neighbour, last row)
\* writes a cell of brightness 0 whose hue is in 0..199 or in 300..359, so
\* never in 200..299.
C18_RootHue ==
    [][DrifterStepped /\ GridNeighbours(cells, Row, Col) = {} /\ Row = nb_rows - 1 =>
        /\ IsCell(cells'[<<Row, Col>>])
        /\ cells'[<<Row, Col>>].brightness = 0
        /\ cells'[<<Row, Col>>].hue \in (0..199) \cup (300..359)
        /\ cells'[<<Row, Col>>].hue \notin 200..299 ]_vars

\* a root seeded from the draw -60: its hue is 300
C18_Witness ==
    /\ ValidBoard /\ pc = "step" /\ idx = 2
    /\ start_cells[<<nb_rows - 1, 0>>] = None
    /\ cells[<<nb_rows - 1, 0>>] = CoralCell(300, 0)

\* the positions holding a cell that a path of adjacent positions holding
\* cells links to a position of S
RECURSIVE LinkedTo(_)
LinkedTo(S) ==
    LET T == S \cup {q \in Pos : IsCell(cells[q]) /\ \E s \in S : q \in Adjacent(s[1], s[2])}
    IN  IF T = S THEN S ELSE LinkedTo(T)

\* the positions linked to a cell of the last row
Anchored == LinkedTo({q \in Pos : q[1] = nb_rows - 1 /\ IsCell(cells[q])})

\* C19: in every reachable state, every position that holds a cell is
\* linked to a cell of the last row by a path of orthogonally adjacent
\* positions holding cells (columns wrapping, rows not); and a position
\* above the last row that holds a cell has another position next to it
\* that holds one.
C19_Connected ==
    ValidBoard =>
        /\ {q \in Pos : IsCell(cells[q])} \subseteq Anchored
        /\ \A q \in Pos : IsCell(cells[q]) /\ q[1] < nb_rows - 1 =>
                \E a \in Adjacent(q[1], q[2]) \ {q} : IsCell(cells[a])

\* a two-row, two-column board holding cells on both rows and an empty slot
C19_Witness ==
    /\ ValidBoard /\ nb_rows = 2 /\ nb_cols = 2
    /\ \E c \in 0..1 : IsCell(cells[<<0, c>>])
    /\ \E q \in Pos : cells[q] = None
    /\ \E c \in 0..1 : IsCell(cells[<<1, c>>])

\* C20: a position that holds a cell holds a cell after every transition,
\* so after every later step (the cell may be replaced by the child or the
\* root a later drifter_step writes at the same position); and a
\* drifter_step call that changes the grid leaves a cell at its position.
C20_OccupancyGrows ==
    [][pc # "new" =>
        /\ DOMAIN cells' = DOMAIN cells
        /\ \A q \in DOMAIN cells : IsCell(cells[q]) => IsCell(cells'[q])
        /\ (DrifterStepped /\ cells' # cells =>
                IsCell(cells'[<<Row, Col>>])) ]_vars

\* the end of a step in which a position that held a cell was overwritten
\* by another cell
C20_Witness ==
    /\ ValidBoard /\ pc = "step" /\ idx > Len(drifters)
    /\ \E q \in Pos :
        IsCell(start_cells[q]) /\ IsCell(cells[q]) /\ cells[q] # start_cells[q]
====
